---------------------------- MODULE Spec2Model ----------------------------
(***************************************************************************)
(* Reconciliation engine of HuluDataComp (src/dataComparer.js): composite  *)
(* keys, deduplication of the extracted records, keyed comparison against  *)
(* the store snapshot and the per-field comparison; and a run of main      *)
(* (src/index.js) over the configured collections, with the store adapter  *)
(* and the report files.                                                   *)
(*                                                                         *)
(* JavaScript values are encoded as records [t, s, n]: t is the result of  *)
(* typeof (with "null" kept apart from "undefined"), s the characters of a *)
(* string, n the number (or 1/0 for true/false).  A string is a sequence   *)
(* of one-character strings.  The encoding is canonical, so = on encoded   *)
(* values is JavaScript's === on scalars.  A record (row / document) is a  *)
(* function from the field names it owns to values.                        *)
(***************************************************************************)
EXTENDS Integers, Sequences, FiniteSets, TLC

VARIABLES
    pc,                 \* which call has returned
    record,             \* argument of createCompositeKey
    keySpec,            \* argument of createCompositeKey
    key,                \* value returned by createCompositeKey
    data,               \* getDuplicateStats: extracted records
    compositeUniqueKeys,\* collectionConfig.compositeUniqueKeys
    duplicateResult,    \* value returned by getDuplicateStats
    uniqueRecords,      \* compareData: source records
    dbRecords,          \* compareData: store records
    compositeKeys,      \* compareData: collectionConfig.dataCompareKey
    exactMatchKeys,     \* compareData: collectionConfig.exactMatchKeys
    comparisonResult,   \* value returned by compareData
    differences,        \* value returned by findRecordDifferences
    config,             \* config.collectionConfig and config.dbConfig.sql
    index,              \* main: number of collections the loop has taken
    handed,             \* the collections handed to generateReport, in order
    results,            \* the success flags main got back, in order
    exit,               \* the return statement the latest generateReport took
    connection,         \* MongoDBAdapter.connection: "null" or "open"
    written,            \* report files written since the latest call
    pendingWrite,       \* collections whose duplicate summary is being written
    returnValue,        \* what generateComparisonReport is about to return
    calls,              \* the calls generateComparisonReport made, in order
    readResults,        \* what readExcel returned for each file of the mapping
    logged,             \* what compareData logged
    sheet,              \* readExcel: the rows of the sheet below the header row
    columnConfig,       \* readExcel: fileMapping.columnConfig
    excludeRecord,      \* readExcel: collectionConfig.excludeRecord
    extractedData       \* readExcel: the records extracted from the rows

vars == <<pc, record, keySpec, key, data, compositeUniqueKeys, duplicateResult,
          uniqueRecords, dbRecords, compositeKeys, exactMatchKeys,
          comparisonResult, differences, config, index, handed, results, exit,
          connection, written, pendingWrite, returnValue, calls, readResults,
          logged, sheet, columnConfig, excludeRecord, extractedData>>

excelVars == <<sheet, columnConfig, excludeRecord, extractedData>>

\* the variables of a run of main
runVars == <<config, index, handed, results, exit, connection, written,
             pendingWrite, returnValue, calls, readResults>>

---------------------------------------------------------------------------
(* Bounds of the model *)

MaxData == 3
MaxSource == 2
MaxStore == 2
MaxCollections == 2
MaxRows == 2

---------------------------------------------------------------------------
(* JavaScript values *)

Str(chars) == [t |-> "string", s |-> chars, n |-> 0]
Num(i) == [t |-> "number", s |-> <<>>, n |-> i]
Bool(b) == [t |-> "boolean", s |-> <<>>, n |-> IF b THEN 1 ELSE 0]
Null == [t |-> "null", s |-> <<>>, n |-> 0]
Undefined == [t |-> "undefined", s |-> <<>>, n |-> 0]

\* record[field]: undefined when the record does not own the field
Get(rec, field) == IF field \in DOMAIN rec THEN rec[field] ELSE Undefined

\* String.prototype.toLowerCase over the alphabet of the model
LowerChar(c) ==
    CASE c = "A" -> "a"
      [] c = "B" -> "b"
      [] c = "T" -> "t"
      [] c = "U" -> "u"
      [] c = "X" -> "x"
      [] OTHER -> c

ToLowerCase(chars) == [i \in 1..Len(chars) |-> LowerChar(chars[i])]

RECURSIVE TrimStart(_)
TrimStart(chars) ==
    IF chars # <<>> /\ Head(chars) = " " THEN TrimStart(Tail(chars)) ELSE chars

RECURSIVE TrimEnd(_)
TrimEnd(chars) ==
    IF chars # <<>> /\ chars[Len(chars)] = " "
    THEN TrimEnd(SubSeq(chars, 1, Len(chars) - 1))
    ELSE chars

\* String.prototype.trim
Trim(chars) == TrimEnd(TrimStart(chars))

Digit == <<"0", "1", "2", "3", "4", "5", "6", "7", "8", "9">>

\* Number.prototype.toString of a natural number
RECURSIVE NumToString(_)
NumToString(i) ==
    IF i < 10 THEN <<Digit[i + 1]>>
    ELSE NumToString(i \div 10) \o <<Digit[(i % 10) + 1]>>

\* the string Array.prototype.join makes of one element
ToStr(v) ==
    CASE v.t = "string" -> v.s
      [] v.t = "number" -> NumToString(v.n)
      [] v.t = "boolean" -> IF v.n = 1 THEN <<"t", "r", "u", "e">>
                            ELSE <<"f", "a", "l", "s", "e">>
      [] OTHER -> <<>>

RECURSIVE Join(_, _)
Join(elems, sep) ==
    IF elems = <<>> THEN <<>>
    ELSE IF Len(elems) = 1 THEN ToStr(elems[1])
    ELSE ToStr(elems[1]) \o sep \o Join(Tail(elems), sep)

---------------------------------------------------------------------------
(* KeyBuilder *)

\* the mutant turns null into the text String(null) gives
createCompositeKeyNullAsText(rec, keys) ==
    Trim(ToLowerCase(Join([i \in 1..Len(keys) |->
                             IF Get(rec, keys[i]).t = "undefined"
                             THEN Str(<<>>)
                             ELSE IF Get(rec, keys[i]).t = "null"
                             THEN Str(<<"n", "u", "l", "l">>)
                             ELSE Get(rec, keys[i])], <<"|">>)))

\* the mutant joins the values without a delimiter
createCompositeKeyNoDelimiter(rec, keys) ==
    Trim(ToLowerCase(Join([i \in 1..Len(keys) |->
                             IF Get(rec, keys[i]).t \in {"undefined", "null"}
                             THEN Str(<<>>)
                             ELSE Get(rec, keys[i])], <<>>)))

createCompositeKey(rec, keys) ==
    Trim(ToLowerCase(Join([i \in 1..Len(keys) |->
                             IF Get(rec, keys[i]).t \in {"undefined", "null"}
                             THEN Str(<<>>)
                             ELSE Get(rec, keys[i])], <<"|">>)))

---------------------------------------------------------------------------
(* Deduplicator *)

\* the mutant leaves the count of the entry as it is
IncrementCountNever(duplicates, compositeKey) == duplicates

\* duplicates.find(d => d.compositeKey === compositeKey).duplicateCount += 1
IncrementCount(duplicates, compositeKey) ==
    LET first == CHOOSE i \in 1..Len(duplicates) :
                     /\ duplicates[i].compositeKey = compositeKey
                     /\ \A j \in 1..(i - 1) : duplicates[j].compositeKey # compositeKey
    IN [duplicates EXCEPT ![first].duplicateCount = @ + 1]

\* the mutant pushes an entry for every repeat, without looking at duplicateSet
DedupStepAlwaysPush(st, rec, keys) ==
    LET compositeKey == createCompositeKey(rec, keys)
    IN IF compositeKey \notin st.uniqueKeys
       THEN [st EXCEPT !.uniqueKeys = @ \cup {compositeKey},
                       !.uniqueData = Append(@, rec)]
       ELSE [st EXCEPT !.duplicates =
                           Append(@, [record |-> rec,
                                      compositeKey |-> compositeKey,
                                      duplicateCount |-> 1]),
                       !.duplicateSet = @ \cup {compositeKey}]

\* the mutant lets the latest record of a key replace the one kept for it
DedupStepLastWins(st, rec, keys) ==
    LET compositeKey == createCompositeKey(rec, keys)
    IN IF compositeKey \notin st.uniqueKeys
       THEN [st EXCEPT !.uniqueKeys = @ \cup {compositeKey},
                       !.uniqueData = Append(@, rec)]
       ELSE [st EXCEPT !.uniqueData =
                [i \in 1..Len(@) |->
                    IF createCompositeKey(@[i], keys) = compositeKey
                    THEN rec ELSE @[i]]]

\* one iteration of the loop over data
DedupStep(st, rec, keys) ==
    LET compositeKey == createCompositeKey(rec, keys)
    IN IF compositeKey \notin st.uniqueKeys
       THEN [st EXCEPT !.uniqueKeys = @ \cup {compositeKey},
                       !.uniqueData = Append(@, rec)]
       ELSE IF compositeKey \in st.duplicateSet
            THEN [st EXCEPT !.duplicates = IncrementCount(@, compositeKey)]
            ELSE [st EXCEPT !.duplicates =
                                Append(@, [record |-> rec,
                                           compositeKey |-> compositeKey,
                                           duplicateCount |-> 1]),
                            !.duplicateSet = @ \cup {compositeKey}]

RECURSIVE DedupLoop(_, _, _)
DedupLoop(st, recs, keys) ==
    IF recs = <<>> THEN st
    ELSE DedupLoop(DedupStep(st, Head(recs), keys), Tail(recs), keys)

RECURSIVE SumDuplicateCount(_)
SumDuplicateCount(duplicates) ==
    IF duplicates = <<>> THEN 0
    ELSE Head(duplicates).duplicateCount + SumDuplicateCount(Tail(duplicates))

\* the mutant counts the entries, as the earlier getDuplicateStats did
duplicateCountLength(duplicates) == Len(duplicates)

\* duplicates.reduce((count, d) => count + d.duplicateCount, 0)
duplicateCountOf(duplicates) == SumDuplicateCount(duplicates)

\* the argument of getDuplicateStats as the call leaves it: the records are
\* pushed to the result lists as they are and the list is only iterated
dataAfterGetDuplicateStats(recs, keys) == recs

getDuplicateStats(recs, keys) ==
    LET st == DedupLoop([uniqueKeys |-> {}, uniqueData |-> <<>>,
                         duplicates |-> <<>>, duplicateSet |-> {}], recs, keys)
    IN [totalRecords |-> Len(recs),
        uniqueRecords |-> st.uniqueData,
        uniqueCount |-> Len(st.uniqueData),
        duplicateRecords |-> st.duplicates,
        duplicateCount |-> duplicateCountOf(st.duplicates)]

---------------------------------------------------------------------------
(* Reconciler and FieldDiffer (compareData, isEqual) *)

\* a Map in insertion order: a sequence of [key, records] entries
MapHas(map, k) == \E i \in 1..Len(map) : map[i].key = k

MapGet(map, k) == map[CHOOSE i \in 1..Len(map) : map[i].key = k].records

\* map.has(key) ? map.get(key).push(record) : map.set(key, [record])
MapPush(map, k, rec) ==
    IF MapHas(map, k)
    THEN [i \in 1..Len(map) |->
             IF map[i].key = k
             THEN [map[i] EXCEPT !.records = Append(@, rec)]
             ELSE map[i]]
    ELSE Append(map, [key |-> k, records |-> <<rec>>])

\* records.forEach(record => ...) grouping the records by composite key
RECURSIVE GroupByKey(_, _, _)
GroupByKey(map, recs, keys) ==
    IF recs = <<>> THEN map
    ELSE GroupByKey(MapPush(map, createCompositeKey(Head(recs), keys), Head(recs)),
                    Tail(recs), keys)

\* the mutant lets groups of two records pass
isUniqueConstraintBrokenOverTwo(dbMap) ==
    \E i \in 1..Len(dbMap) : Len(dbMap[i].records) > 2

isUniqueConstraintBroken(dbMap) ==
    \E i \in 1..Len(dbMap) : Len(dbMap[i].records) > 1

\* typeof value === 'string' ? value.toLowerCase() : value
LowerIfString(v) == IF v.t = "string" THEN Str(ToLowerCase(v.s)) ELSE v

\* the mutant leaves out the comparison of the two lengths
isEqualNoLengthCheck(excelRecords, dbRecs, matchKeys) ==
    \A i \in 1..Len(matchKeys) :
        LowerIfString(Get(excelRecords[1], matchKeys[i]))
            = LowerIfString(Get(dbRecs[1], matchKeys[i]))

\* the mutant compares the strings as they are
isEqualCaseSensitive(excelRecords, dbRecs, matchKeys) ==
    IF Len(excelRecords) # Len(dbRecs) THEN FALSE
    ELSE \A i \in 1..Len(matchKeys) :
            Get(excelRecords[1], matchKeys[i]) = Get(dbRecs[1], matchKeys[i])

isEqual(excelRecords, dbRecs, matchKeys) ==
    IF Len(excelRecords) # Len(dbRecs) THEN FALSE
    ELSE \A i \in 1..Len(matchKeys) :
            LowerIfString(Get(excelRecords[1], matchKeys[i]))
                = LowerIfString(Get(dbRecs[1], matchKeys[i]))

RECURSIVE SumRecords(_)
SumRecords(items) ==
    IF items = <<>> THEN 0
    ELSE Len(Head(items).records) + SumRecords(Tail(items))

\* the mutant counts the addition groups, not their records
numberOfRecordsToAddInDBGroups(items) == Len(items)

\* recordsToAddInDB.reduce((count, item) => count + item.records.length, 0)
numberOfRecordsToAddInDB(items) == SumRecords(items)

RECURSIVE SumExcelRecords(_)
SumExcelRecords(items) ==
    IF items = <<>> THEN 0
    ELSE Len(Head(items).excelRecords) + SumExcelRecords(Tail(items))

\* the mutant counts the source records of the update groups, not the groups
noOfChangesRequiredInDBRecords(items) == SumExcelRecords(items)

\* reportData.changesRequiredInDB.length
noOfChangesRequiredInDB(items) == Len(items)

\* the mutant reports every source key as an addition
recordsToAddInDBAll(excelMap, dbMap) ==
    [i \in 1..Len(excelMap) |-> [records |-> excelMap[i].records, action |-> "ADD"]]

\* excelMap.forEach: the keys the store does not have
recordsToAddInDB(excelMap, dbMap) ==
    LET missing(e) == ~MapHas(dbMap, e.key)
        sel == SelectSeq(excelMap, missing)
    IN [i \in 1..Len(sel) |-> [records |-> sel[i].records, action |-> "ADD"]]

\* dbMap.forEach: the keys the source does not have
recordsToDeleteFromDB(excelMap, dbMap) ==
    LET missing(e) == ~MapHas(excelMap, e.key)
        sel == SelectSeq(dbMap, missing)
    IN [i \in 1..Len(sel) |-> [records |-> sel[i].records, action |-> "DELETE"]]

\* the mutant reports only the first source record of a changed key
changesRequiredInDBFirstRecord(excelMap, dbMap, matchKeys) ==
    LET changed(e) == /\ MapHas(dbMap, e.key)
                      /\ ~isEqual(e.records, MapGet(dbMap, e.key), matchKeys)
        sel == SelectSeq(excelMap, changed)
    IN [i \in 1..Len(sel) |->
           [excelRecords |-> <<sel[i].records[1]>>,
            dbRecords |-> MapGet(dbMap, sel[i].key)]]

\* excelMap.forEach: the keys of both sides, split by isEqual
changesRequiredInDB(excelMap, dbMap, matchKeys) ==
    LET changed(e) == /\ MapHas(dbMap, e.key)
                      /\ ~isEqual(e.records, MapGet(dbMap, e.key), matchKeys)
        sel == SelectSeq(excelMap, changed)
    IN [i \in 1..Len(sel) |->
           [excelRecords |-> sel[i].records, dbRecords |-> MapGet(dbMap, sel[i].key)]]

exactMatches(excelMap, dbMap, matchKeys) ==
    LET same(e) == /\ MapHas(dbMap, e.key)
                   /\ isEqual(e.records, MapGet(dbMap, e.key), matchKeys)
        sel == SelectSeq(excelMap, same)
    IN [i \in 1..Len(sel) |->
           [excelRecords |-> sel[i].records, dbRecords |-> MapGet(dbMap, sel[i].key)]]

exactMatchesWithKeys(excelMap, dbMap) ==
    LET both(e) == MapHas(dbMap, e.key)
        sel == SelectSeq(excelMap, both)
    IN [i \in 1..Len(sel) |-> sel[i].key]

\* Array.prototype.join over the names of a key spec; a name is one token
RECURSIVE JoinNames(_, _)
JoinNames(names, sep) ==
    IF names = <<>> THEN <<>>
    ELSE IF Len(names) = 1 THEN <<names[1]>>
    ELSE <<names[1]>> \o sep \o JoinNames(Tail(names), sep)

\* the messages compareData logs: the text and the values put into it
compareDataLog(dbRecs, keys) ==
    IF isUniqueConstraintBroken(GroupByKey(<<>>, dbRecs, keys))
    THEN <<[message |-> "Unique constraint is broken for DB data with composite keys",
            interpolated |-> <<JoinNames(keys, <<",", " ">>)>>]>>
    ELSE <<>>

\* the whole body runs inside try/catch, whose handler returns
\* { success: false, error }: no exception leaves compareData
compareData(srcRecs, dbRecs, keys, matchKeys) ==
    LET excelMap == GroupByKey(<<>>, srcRecs, keys)
        dbMap == GroupByKey(<<>>, dbRecs, keys)
    IN IF isUniqueConstraintBroken(dbMap)
       THEN [success |-> FALSE]
       ELSE [success |-> TRUE,
             reportData |->
               [recordsToAddInDB |-> recordsToAddInDB(excelMap, dbMap),
                numberOfRecordsToAddInDB |->
                    numberOfRecordsToAddInDB(recordsToAddInDB(excelMap, dbMap)),
                recordsToDeleteFromDB |-> recordsToDeleteFromDB(excelMap, dbMap),
                numberOfRecordsToDeleteFromDB |->
                    Len(recordsToDeleteFromDB(excelMap, dbMap)),
                changesRequiredInDB |-> changesRequiredInDB(excelMap, dbMap, matchKeys),
                exactMatchesWithKeys |-> exactMatchesWithKeys(excelMap, dbMap),
                exactMatches |-> exactMatches(excelMap, dbMap, matchKeys),
                noOfexactMatchesWithKeys |-> Len(exactMatchesWithKeys(excelMap, dbMap)),
                noOfChangesRequiredInDB |->
                    noOfChangesRequiredInDB(
                        changesRequiredInDB(excelMap, dbMap, matchKeys)),
                noOfExactMatches |-> Len(exactMatches(excelMap, dbMap, matchKeys))]]

\* the mutant deletes _id from the store record of every key of both sides,
\* as the earlier compareData did (delete dbRecord._id)
inputsAfterCompareDataIdDeleted(srcRecs, dbRecs, keys) ==
    LET excelMap == GroupByKey(<<>>, srcRecs, keys)
    IN [uniqueRecords |-> srcRecs,
        dbRecords |->
            [i \in 1..Len(dbRecs) |->
                IF MapHas(excelMap, createCompositeKey(dbRecs[i], keys))
                THEN [f \in DOMAIN dbRecs[i] \ {"_id"} |-> dbRecs[i][f]]
                ELSE dbRecs[i]]]

\* the arguments of compareData as the call leaves them: it reads the lists
\* and the records, puts the records themselves into its maps and its report,
\* and assigns to none of them
inputsAfterCompareData(srcRecs, dbRecs, keys) ==
    [uniqueRecords |-> srcRecs, dbRecords |-> dbRecs]

---------------------------------------------------------------------------
(* Full comparison of the earlier compareData: findRecordDifferences *)

normalizeValue(v) ==
    CASE v.t \in {"null", "undefined"} -> <<>>
      [] v.t = "string" -> ToLowerCase(Trim(v.s))
      [] OTHER -> ToStr(v)

hasValue(v) == v.t \notin {"null", "undefined"} /\ v # Str(<<>>)

getChangeType(excelValue, dbValue) ==
    IF ~hasValue(excelValue) /\ ~hasValue(dbValue) THEN "NO_CHANGE"
    ELSE IF ~hasValue(dbValue) /\ hasValue(excelValue) THEN "FIELD_ADDED"
    ELSE IF hasValue(dbValue) /\ ~hasValue(excelValue) THEN "FIELD_REMOVED"
    ELSE "FIELD_MODIFIED"

\* the mutant reports a field whenever the two values are not identical
isDifferentStrict(excelValue, dbValue) == excelValue # dbValue

\* normalizedExcelValue !== normalizedDbValue
isDifferent(excelValue, dbValue) ==
    normalizeValue(excelValue) # normalizeValue(dbValue)

\* the differences, as the set of the entries pushed (one per field at most)
findRecordDifferences(excelRecord, dbRecord) ==
    {[field |-> f,
      excelValue |-> Get(excelRecord, f),
      dbValue |-> Get(dbRecord, f),
      changeType |-> getChangeType(Get(excelRecord, f), Get(dbRecord, f))] :
        f \in {g \in DOMAIN excelRecord \cup DOMAIN dbRecord :
                  isDifferent(Get(excelRecord, g), Get(dbRecord, g))}}

---------------------------------------------------------------------------
(* ExcelHelper: the row loop of readExcel *)

\* a value JavaScript takes for true in a condition
Truthy(v) ==
    CASE v.t = "string" -> v.s # <<>>
      [] v.t = "number" -> v.n # 0
      [] v.t = "boolean" -> v.n = 1
      [] OTHER -> FALSE

\* convertData(value, 'string')
convertData(v) ==
    IF v \in {Null, Undefined, Str(<<>>)} THEN Str(<<>>) ELSE Str(ToStr(v))

\* rowData = {}
EmptyRowData == [f \in {} |-> Undefined]

\* rowData[name] = v
SetField(rowData, name, v) ==
    [f \in DOMAIN rowData \cup {name} |-> IF f = name THEN v ELSE rowData[f]]

\* excludeObj.values.includes(cellValue), for the entries of the column
shouldExclude(column, cellValue, exclude) ==
    \E i \in 1..Len(exclude) :
        /\ column.columnName = exclude[i].columnName
        /\ cellValue \in exclude[i].values

\* one turn of for (const column of columnConfig): the row as the cell values
\* under the header names
ColumnStep(rowData, column, row, exclude) ==
    IF "headerName" \notin DOMAIN column
    THEN SetField(rowData, column.columnName, Get(column, "defaultValue"))
    ELSE IF shouldExclude(column, row[column.headerName], exclude)
    THEN EmptyRowData
    ELSE LET cellValue == row[column.headerName]
             trimmed == IF Truthy(cellValue) THEN Str(Trim(ToStr(cellValue)))
                        ELSE Str(<<>>)
             columnValue == IF ~Truthy(trimmed) /\ "defaultValue" \in DOMAIN column
                            THEN column.defaultValue ELSE trimmed
         IN SetField(rowData, column.columnName, convertData(columnValue))

RECURSIVE ColumnLoop(_, _, _, _)
ColumnLoop(rowData, columns, row, exclude) ==
    IF columns = <<>> THEN rowData
    ELSE ColumnLoop(ColumnStep(rowData, Head(columns), row, exclude),
                    Tail(columns), row, exclude)

\* what a row adds to extractedData: if (Object.keys(rowData).length > 0)
rowRecords(row, columns, exclude) ==
    LET rowData == ColumnLoop(EmptyRowData, columns, row, exclude)
    IN IF DOMAIN rowData # {} THEN <<rowData>> ELSE <<>>

\* sheet.eachRow over the rows below the header row
RECURSIVE eachRow(_, _, _)
eachRow(rows, columns, exclude) ==
    IF rows = <<>> THEN <<>>
    ELSE rowRecords(Head(rows), columns, exclude)
             \o eachRow(Tail(rows), columns, exclude)

---------------------------------------------------------------------------
(* Inputs *)

\* all sequences over S of length at most n
SeqsUpTo(S, n) == UNION {[1..k -> S] : k \in 0..n}

\* the records owning any subset of the fields, with values from vals
RecordsOver(fields, vals) == UNION {[F -> vals] : F \in SUBSET fields}

Range(seq) == {seq[i] : i \in 1..Len(seq)}

NoValue == "none"

\* createCompositeKey is applied to source and store records alike; store
\* strings may carry blanks at either end, and nothing keeps '|' out of a value
KeyFieldValues ==
    {Str(<<"a">>), Str(<<"A">>), Str(<<"a", " ">>), Str(<<" ", "a">>),
     Str(<<"b">>), Str(<<>>), Null, Num(1), Str(<<"|">>)}

KeySpecs ==
    {<<"ManufacturerName", "ScopeModel", "ScopeType">>,
     <<"ScopeModel", "ScopeType">>,
     <<"ScopeModel">>}

\* extracted rows: readExcel trims every cell
ExtractedRecords ==
    [ScopeModel : {Str(<<"a">>), Str(<<"A">>), Str(<<"b">>)},
     ScopeType : {Str(<<"x">>), Str(<<"y">>)}]

DedupKeySpecs == {<<"ScopeModel">>, <<"ScopeModel", "ScopeType">>}

SourceRecords ==
    [ScopeModel : {Str(<<"a">>), Str(<<"b">>)},
     ScopeType : {Str(<<"x">>), Str(<<"y">>)}]

StoreRecords ==
    [ScopeModel : {Str(<<"A">>), Str(<<"a", " ">>), Str(<<"c">>)},
     ScopeType : {Str(<<"X">>), Str(<<"y">>)}]

\* the dedup key spec under which the source records of compareData were deduplicated
SourceDedupKeys == <<"ScopeModel", "ScopeType">>

CompareKeySpecs == {<<"ScopeModel">>, <<>>}

ExactMatchKeySpecs == {<<>>, <<"ScopeType">>, <<"_id">>}

\* the store's documents with the identity field the store assigns; ids[i] =
\* Undefined leaves document i without one (an aggregate projecting _id out)
WithIds(docs, ids) ==
    [i \in 1..Len(docs) |->
        IF ids[i] = Undefined
        THEN [f \in DOMAIN docs[i] \ {"_id"} |-> docs[i][f]]
        ELSE [f \in DOMAIN docs[i] \cup {"_id"} |->
                 IF f = "_id" THEN ids[i] ELSE docs[i][f]]]

\* document i gets the identity i
AssignedIds(docs) == [i \in 1..Len(docs) |-> Str(NumToString(i))]

NoIds(docs) == [i \in 1..Len(docs) |-> Undefined]

\* rec with field f set to v; v = Undefined leaves rec without the field
WithField(rec, f, v) ==
    IF v = Undefined THEN rec
    ELSE [g \in DOMAIN rec \cup {f} |-> IF g = f THEN v ELSE rec[g]]

\* one source record and one store record under the same compare key; the
\* values of a source field are trimmed (readExcel), '' or converted
\* (convertData), those of a store field are whatever the store holds
PairSourceTypes ==
    {Undefined, Null, Str(<<>>), Str(<<"t">>), Str(<<"T">>), Str(<<"u">>),
     Str(<<"1">>), Num(1), Num(0), Bool(TRUE)}

PairStoreTypes ==
    PairSourceTypes \cup {Str(<<" ", "t">>), Str(<<" ">>), Bool(FALSE)}

PairSourceRecords ==
    {WithField(WithField([ScopeModel |-> Str(<<"a">>)], "ScopeType", t),
               "ManufacturerName", m) :
        t \in PairSourceTypes, m \in {Undefined, Str(<<"x">>)}}

PairStoreRecords ==
    {WithField(WithField([ScopeModel |-> Str(<<"A">>)], "ScopeType", t),
               "ManufacturerName", m) :
        t \in PairStoreTypes, m \in {Str(<<"x">>), Str(<<"X">>), Str(<<"y">>)}}

PairExactMatchKeySpecs ==
    {<<>>, <<"ScopeType">>, <<"ManufacturerName">>,
     <<"ScopeType", "ManufacturerName">>}

---------------------------------------------------------------------------
(* Specifications *)

\* no run of main is under way
IdleRun ==
    /\ config = NoValue
    /\ index = NoValue
    /\ handed = NoValue
    /\ results = NoValue
    /\ exit = NoValue
    /\ connection = NoValue
    /\ written = NoValue
    /\ pendingWrite = NoValue
    /\ returnValue = NoValue
    /\ calls = NoValue
    /\ readResults = NoValue

\* no sheet is being read
IdleExcel ==
    /\ sheet = NoValue
    /\ columnConfig = NoValue
    /\ excludeRecord = NoValue
    /\ extractedData = NoValue

\* SpecKey: createCompositeKey on one record
InitKey ==
    /\ pc = "start"
    /\ record \in RecordsOver(Range(<<"ManufacturerName", "ScopeModel", "ScopeType">>),
                              KeyFieldValues)
    /\ keySpec \in KeySpecs
    /\ key = NoValue
    /\ data = NoValue
    /\ compositeUniqueKeys = NoValue
    /\ duplicateResult = NoValue
    /\ uniqueRecords = NoValue
    /\ dbRecords = NoValue
    /\ compositeKeys = NoValue
    /\ exactMatchKeys = NoValue
    /\ comparisonResult = NoValue
    /\ differences = NoValue
    /\ IdleRun
    /\ IdleExcel
    /\ logged = NoValue

CreateCompositeKey ==
    /\ pc = "start"
    /\ key' = createCompositeKey(record, keySpec)
    /\ pc' = "keyed"
    /\ UNCHANGED <<record, keySpec, data, compositeUniqueKeys, duplicateResult,
                   uniqueRecords, dbRecords, compositeKeys, exactMatchKeys,
                   comparisonResult, differences>>
    /\ UNCHANGED runVars
    /\ UNCHANGED excelVars
    /\ UNCHANGED logged

NextKey == CreateCompositeKey

SpecKey == InitKey /\ [][NextKey]_vars

\* SpecDedup: getDuplicateStats on the extracted records
InitDedup ==
    /\ pc = "start"
    /\ data \in SeqsUpTo(ExtractedRecords, MaxData)
    /\ compositeUniqueKeys \in DedupKeySpecs
    /\ record = NoValue
    /\ keySpec = NoValue
    /\ key = NoValue
    /\ duplicateResult = NoValue
    /\ uniqueRecords = NoValue
    /\ dbRecords = NoValue
    /\ compositeKeys = NoValue
    /\ exactMatchKeys = NoValue
    /\ comparisonResult = NoValue
    /\ differences = NoValue
    /\ IdleRun
    /\ IdleExcel
    /\ logged = NoValue

GetDuplicateStats ==
    /\ pc = "start"
    /\ duplicateResult' = getDuplicateStats(data, compositeUniqueKeys)
    /\ data' = dataAfterGetDuplicateStats(data, compositeUniqueKeys)
    /\ pc' = "deduped"
    /\ UNCHANGED <<record, keySpec, key, compositeUniqueKeys, uniqueRecords,
                   dbRecords, compositeKeys, exactMatchKeys, comparisonResult,
                   differences>>
    /\ UNCHANGED runVars
    /\ UNCHANGED excelVars
    /\ UNCHANGED logged

NextDedup == GetDuplicateStats

SpecDedup == InitDedup /\ [][NextDedup]_vars

\* Spec: compareData on deduplicated source records and the store snapshot
Init ==
    /\ pc = "start"
    /\ uniqueRecords \in
           {getDuplicateStats(l, SourceDedupKeys).uniqueRecords :
               l \in SeqsUpTo(SourceRecords, MaxSource)}
    /\ \E docs \in SeqsUpTo(StoreRecords, MaxStore) :
           dbRecords \in {WithIds(docs, NoIds(docs)), WithIds(docs, AssignedIds(docs))}
    /\ compositeKeys \in CompareKeySpecs
    /\ exactMatchKeys \in ExactMatchKeySpecs
    /\ record = NoValue
    /\ keySpec = NoValue
    /\ key = NoValue
    /\ data = NoValue
    /\ compositeUniqueKeys = NoValue
    /\ duplicateResult = NoValue
    /\ comparisonResult = NoValue
    /\ differences = NoValue
    /\ IdleRun
    /\ IdleExcel
    /\ logged = NoValue

CompareData ==
    /\ pc = "start"
    /\ comparisonResult' =
           compareData(uniqueRecords, dbRecords, compositeKeys, exactMatchKeys)
    /\ logged' = compareDataLog(dbRecords, compositeKeys)
    /\ uniqueRecords' =
           inputsAfterCompareData(uniqueRecords, dbRecords, compositeKeys).uniqueRecords
    /\ dbRecords' =
           inputsAfterCompareData(uniqueRecords, dbRecords, compositeKeys).dbRecords
    /\ pc' = "compared"
    /\ UNCHANGED <<record, keySpec, key, data, compositeUniqueKeys, duplicateResult,
                   compositeKeys, exactMatchKeys, differences>>
    /\ UNCHANGED runVars
    /\ UNCHANGED excelVars

Next == CompareData

Spec == Init /\ [][Next]_vars

\* SpecPair: compareData on one source and one store record of the same key
InitPair ==
    /\ pc = "start"
    /\ \E r \in PairSourceRecords : uniqueRecords = <<r>>
    /\ \E r \in PairStoreRecords : dbRecords = <<r>>
    /\ compositeKeys = <<"ScopeModel">>
    /\ exactMatchKeys \in PairExactMatchKeySpecs
    /\ record = NoValue
    /\ keySpec = NoValue
    /\ key = NoValue
    /\ data = NoValue
    /\ compositeUniqueKeys = NoValue
    /\ duplicateResult = NoValue
    /\ comparisonResult = NoValue
    /\ differences = NoValue
    /\ IdleRun
    /\ IdleExcel
    /\ logged = NoValue

SpecPair == InitPair /\ [][Next]_vars

\* SpecDiff: findRecordDifferences of the earlier compareData on the two
\* records of a key present on both sides
InitDiff ==
    /\ pc = "start"
    /\ \E r \in PairSourceRecords : uniqueRecords = <<r>>
    /\ \E r \in PairStoreRecords : dbRecords = <<r>>
    /\ compositeKeys = <<"ScopeModel">>
    /\ exactMatchKeys = <<>>
    /\ record = NoValue
    /\ keySpec = NoValue
    /\ key = NoValue
    /\ data = NoValue
    /\ compositeUniqueKeys = NoValue
    /\ duplicateResult = NoValue
    /\ comparisonResult = NoValue
    /\ differences = NoValue
    /\ IdleRun
    /\ IdleExcel
    /\ logged = NoValue

FindRecordDifferences ==
    /\ pc = "start"
    /\ differences' = findRecordDifferences(uniqueRecords[1], dbRecords[1])
    /\ pc' = "diffed"
    /\ UNCHANGED <<record, keySpec, key, data, compositeUniqueKeys, duplicateResult,
                   uniqueRecords, dbRecords, compositeKeys, exactMatchKeys,
                   comparisonResult>>
    /\ UNCHANGED runVars
    /\ UNCHANGED excelVars
    /\ UNCHANGED logged

NextDiff == FindRecordDifferences

SpecDiff == InitDiff /\ [][NextDiff]_vars

\* the columns of hulu.hookup: a column with a default value only and two
\* columns read from the sheet
Columns ==
    {[columnName |-> "MachineFamilyID", defaultValue |-> Num(2)],
     [columnName |-> "ScopeFamily", headerName |-> "Strict Scope Family ID"],
     [columnName |-> "HookupName", headerName |-> "Hookup, Handle version"]}

\* the column configurations: two or three of the columns, in any order
ColumnConfigs ==
    {c \in SeqsUpTo(Columns, 3) :
        /\ Len(c) >= 2
        /\ \A i, j \in 1..Len(c) : c[i] = c[j] => i = j
        /\ \E i \in 1..Len(c) : c[i].columnName = "HookupName"}

\* the value of a cell: empty, a number or a text
CellValues == {Null, Num(0), Str(<<"0">>), Str(<<"h", " ">>)}

Rows == [{"Strict Scope Family ID", "Hookup, Handle version"} -> CellValues]

\* excludeRecord of hulu.hookup, or none
ExcludeRecords ==
    {<<>>,
     <<[columnName |-> "HookupName",
        values |-> {Str(<<>>), Null, Undefined, Num(0), Str(<<"0">>)}]>>}

\* SpecExcel: the row loop of readExcel on the rows of one sheet
InitExcel ==
    /\ pc = "start"
    /\ sheet \in SeqsUpTo(Rows, MaxRows)
    /\ columnConfig \in ColumnConfigs
    /\ excludeRecord \in ExcludeRecords
    /\ extractedData = <<>>
    /\ record = NoValue
    /\ keySpec = NoValue
    /\ key = NoValue
    /\ data = NoValue
    /\ compositeUniqueKeys = NoValue
    /\ duplicateResult = NoValue
    /\ uniqueRecords = NoValue
    /\ dbRecords = NoValue
    /\ compositeKeys = NoValue
    /\ exactMatchKeys = NoValue
    /\ comparisonResult = NoValue
    /\ differences = NoValue
    /\ IdleRun
    /\ logged = NoValue

EachRow ==
    /\ pc = "start"
    /\ extractedData' = eachRow(sheet, columnConfig, excludeRecord)
    /\ pc' = "extracted"
    /\ UNCHANGED <<record, keySpec, key, data, compositeUniqueKeys, duplicateResult,
                   uniqueRecords, dbRecords, compositeKeys, exactMatchKeys,
                   comparisonResult, differences, logged>>
    /\ UNCHANGED <<sheet, columnConfig, excludeRecord>>
    /\ UNCHANGED runVars

NextExcel == EachRow

SpecExcel == InitExcel /\ [][NextExcel]_vars

---------------------------------------------------------------------------
(* A run of main (src/index.js) over config.collectionConfig: one call of   *)
(* generateReport per collection.  A step runs from one await to the next.  *)

\* a collection configuration with every key spec, as hulu.scope has it; the
\* name of a collection is its position in the list
FullConfig(name) ==
    [collectionName |-> name,
     compositeUniqueKeys |-> <<"ScopeModel", "ScopeType">>,
     dataCompareKey |-> <<"ScopeModel">>,
     exactMatchKeys |-> <<"ScopeType">>]

Without(cfg, field) == [f \in DOMAIN cfg \ {field} |-> cfg[f]]

\* the configurations of a collection: complete, without dataCompareKey (as
\* hulu.hookup), without compositeUniqueKeys, and with an empty dataCompareKey
CollectionConfigs(name) ==
    {FullConfig(name),
     Without(FullConfig(name), "dataCompareKey"),
     Without(FullConfig(name), "compositeUniqueKeys"),
     [FullConfig(name) EXCEPT !.dataCompareKey = <<>>]}

\* the files of the mapping of a collection, in mapping order
Mapping == <<"20601-814 Master HU DB Rev. AM.xlsx", "ENSPIRE.xlsx">>

\* what readExcel returns for a file: no success, or the rows it extracted
RunData ==
    LET ax == [ScopeModel |-> Str(<<"a">>), ScopeType |-> Str(<<"x">>)]
        ay == [ScopeModel |-> Str(<<"a">>), ScopeType |-> Str(<<"y">>)]
    IN {[success |-> FALSE, data |-> <<>>],
        [success |-> TRUE, data |-> <<ax>>],
        [success |-> TRUE, data |-> <<ay>>]}

\* the mutant puts the rows of a later file in front
RECURSIVE allExtractedDataLaterFirst(_)
allExtractedDataLaterFirst(reads) ==
    IF reads = <<>> THEN <<>>
    ELSE allExtractedDataLaterFirst(Tail(reads))
             \o (IF Head(reads).success THEN Head(reads).data ELSE <<>>)

\* allExtractedData = allExtractedData.concat(result.data), for every file
\* read with success, in mapping order
RECURSIVE allExtractedData(_)
allExtractedData(reads) ==
    IF reads = <<>> THEN <<>>
    ELSE (IF Head(reads).success THEN Head(reads).data ELSE <<>>)
             \o allExtractedData(Tail(reads))

\* the documents the store holds for a collection
RunStore ==
    LET ax == [ScopeModel |-> Str(<<"A">>), ScopeType |-> Str(<<"X">>)]
        ay == [ScopeModel |-> Str(<<"a", " ">>), ScopeType |-> Str(<<"y">>)]
        cx == [ScopeModel |-> Str(<<"c">>), ScopeType |-> Str(<<"x">>)]
    IN {<<>>, <<ax>>, <<ax, ay>>, <<ax, cx>>}

\* !compositeKeys || compositeKeys.length === 0
noCompositeKeys(cfg, field) == field \notin DOMAIN cfg \/ cfg[field] = <<>>

\* a destructured parameter with the default value []
OrEmptyList(cfg, field) == IF field \in DOMAIN cfg THEN cfg[field] ELSE <<>>

\* the mutant returns without closing
finallyCloseMissing(conn) == conn

\* the mutant closes the connection but keeps the handle
closeKeepsHandle(conn) == conn

\* MongoDBAdapter.close: if (this.connection) { close; this.connection = null };
\* mongoose.connection.close() is taken to succeed (its catch only logs)
close(conn) == IF conn # "null" THEN "null" ELSE conn

\* finally { await dbAdapter.close() }
finallyClose(conn) == close(conn)

\* a call of dbAdapter.close: the connection is closed when the adapter
\* holds a handle, and nothing happens otherwise
CloseCall(conn) ==
    [call |-> "close", outcome |-> IF conn # "null" THEN "closed" ELSE "nothing"]

Call(name, outcome) == [call |-> name, outcome |-> outcome]

\* the mutant goes on to the report whatever compareData returned
afterCompareDataAlways(success) == "writeReport"

\* if (!comparisonResult.success) return { success: false }
afterCompareData(success) == IF success THEN "writeReport" ELSE "finally"

\* the collection main is working on
Current == config.collectionConfig[index]

File(name, kind) == [collectionName |-> name, file |-> kind]

\* the process is running: neither process.exit nor an uncaught error yet
Alive == pc \notin {"exit", "crashed"}

InitRun ==
    /\ pc = "main"
    /\ \E n \in 1..MaxCollections :
           \E choice \in [1..n -> CollectionConfigs(0)] :
               \E sql \in BOOLEAN :
                   config = [collectionConfig |->
                                 [i \in 1..n |-> [choice[i] EXCEPT !.collectionName = i]],
                             sql |-> sql]
    /\ index = 0
    /\ handed = <<>>
    /\ results = <<>>
    /\ exit = "none"
    /\ connection = "null"
    /\ written = {}
    /\ pendingWrite = {}
    /\ returnValue = NoValue
    /\ calls = <<>>
    /\ readResults = NoValue
    /\ logged = NoValue
    /\ IdleExcel
    /\ record = NoValue
    /\ keySpec = NoValue
    /\ key = NoValue
    /\ differences = NoValue
    /\ data = NoValue
    /\ compositeUniqueKeys = NoValue
    /\ duplicateResult = NoValue
    /\ uniqueRecords = NoValue
    /\ dbRecords = NoValue
    /\ compositeKeys = NoValue
    /\ exactMatchKeys = NoValue
    /\ comparisonResult = NoValue

\* generateReport returns to main, which logs and goes on with the loop; the
\* locals of the call are gone
ReturnToMain(success, statement) ==
    /\ results' = Append(results, success)
    /\ exit' = statement
    /\ pc' = "main"
    /\ data' = NoValue
    /\ compositeUniqueKeys' = NoValue
    /\ duplicateResult' = NoValue
    /\ uniqueRecords' = NoValue
    /\ dbRecords' = NoValue
    /\ compositeKeys' = NoValue
    /\ exactMatchKeys' = NoValue
    /\ comparisonResult' = NoValue
    /\ logged' = NoValue
    /\ readResults' = NoValue
    /\ returnValue' = NoValue

\* the variables a run of main never touches
engineVars == <<record, keySpec, key, differences, sheet, columnConfig,
                excludeRecord, extractedData>>

\* the locals of generateComparisonReport
comparisonVars ==
    <<dbRecords, compositeKeys, exactMatchKeys, comparisonResult, logged>>

\* main: the loop takes the next collection and calls generateReport, which
\* starts reading the files of the mapping
MainLoop ==
    /\ pc = "main"
    /\ index < Len(config.collectionConfig)
    /\ index' = index + 1
    /\ handed' = Append(handed, config.collectionConfig[index + 1].collectionName)
    /\ written' = {}
    /\ calls' = <<>>
    /\ exit' = "none"
    /\ pc' = "readExcel"
    /\ UNCHANGED <<engineVars, comparisonVars, data, compositeUniqueKeys,
                   duplicateResult, uniqueRecords, config, results, connection,
                   pendingWrite, returnValue, readResults>>

\* generateReport: the loop over mapping; a file that cannot be read is
\* skipped, an exception (a mapping that is no list) ends in the catch
ReadExcel ==
    /\ pc = "readExcel"
    /\ \/ /\ \E reads \in [1..Len(Mapping) -> RunData] :
                 /\ readResults' = reads
                 /\ data' = allExtractedData(reads)
          /\ pc' = "generateDuplicateReport"
          /\ UNCHANGED <<comparisonVars, compositeUniqueKeys, duplicateResult,
                         uniqueRecords, results, exit, returnValue>>
       \/ ReturnToMain(FALSE, "catch of generateReport")
    /\ UNCHANGED <<engineVars, config, index, handed, connection, written,
                   pendingWrite, calls>>

\* the report files of generateDuplicateReport: writeExcel swallows its own
\* errors, so each Excel file is written or silently missing
DuplicateFiles(name, fileWritten, combinedWritten) ==
    (IF fileWritten THEN {File(name, "Duplicates")} ELSE {})
        \cup (IF combinedWritten THEN {File(name, "Combined_Duplicates")} ELSE {})

\* generateDuplicateReport, up to the await of dbAdapter.init when it succeeds
GenerateDuplicateReport ==
    /\ pc = "generateDuplicateReport"
    /\ IF noCompositeKeys(Current, "compositeUniqueKeys")
       THEN /\ ReturnToMain(FALSE, "generateDuplicateReport")
            /\ UNCHANGED <<written, pendingWrite>>
       ELSE LET res == getDuplicateStats(data, Current.compositeUniqueKeys)
                name == Current.collectionName
            IN \/ /\ ReturnToMain(FALSE, "generateDuplicateReport")
                  /\ UNCHANGED <<written, pendingWrite>>
               \/ /\ res.duplicateRecords = <<>>
                  /\ UNCHANGED <<written, pendingWrite>>
                  /\ compositeUniqueKeys' = Current.compositeUniqueKeys
                  /\ duplicateResult' = res
                  /\ uniqueRecords' = res.uniqueRecords
                  /\ pc' = "init"
                  /\ UNCHANGED <<comparisonVars, data, results, exit, returnValue,
                                 readResults>>
               \/ /\ res.duplicateRecords # <<>>
                  /\ \E fileWritten, combinedWritten \in BOOLEAN :
                         written' = written
                             \cup DuplicateFiles(name, fileWritten, combinedWritten)
                  /\ pendingWrite' = pendingWrite \cup {name}
                  /\ compositeUniqueKeys' = Current.compositeUniqueKeys
                  /\ duplicateResult' = res
                  /\ uniqueRecords' = res.uniqueRecords
                  /\ pc' = "init"
                  /\ UNCHANGED <<comparisonVars, data, results, exit, returnValue,
                                 readResults>>
    /\ UNCHANGED <<engineVars, config, index, handed, connection, calls>>

\* fse.outputFile of the duplicate summary is not awaited: the file appears
\* at some later time
SummaryWritten ==
    /\ Alive
    /\ \E name \in pendingWrite :
           /\ written' = written \cup {File(name, "Summary of duplicates")}
           /\ pendingWrite' = pendingWrite \ {name}
    /\ UNCHANGED <<engineVars, comparisonVars, pc, data, compositeUniqueKeys,
                   duplicateResult, uniqueRecords, config, index, handed, results,
                   exit, connection, returnValue, calls, readResults>>

\* ... or the write fails: the rejection has no handler, and the process ends
\* with an uncaught error
SummaryWriteRejected ==
    /\ Alive
    /\ pendingWrite # {}
    /\ pc' = "crashed"
    /\ pendingWrite' = {}
    /\ UNCHANGED <<engineVars, comparisonVars, data, compositeUniqueKeys,
                   duplicateResult, uniqueRecords, config, index, handed, results,
                   exit, connection, written, returnValue, calls, readResults>>

\* dbAdapter.init: the SQL adapter holds no connection; mongoose.connect
\* opens one or throws, which init turns into { success: false }
AdapterInit ==
    /\ pc = "init"
    /\ IF config.sql
       THEN /\ pc' = "fetchRecords"
            /\ calls' = Append(calls, Call("init", "success"))
            /\ UNCHANGED <<connection, returnValue>>
       ELSE \/ /\ connection' = "open"
               /\ pc' = "fetchRecords"
               /\ calls' = Append(calls, Call("init", "connected"))
               /\ UNCHANGED returnValue
            \/ /\ returnValue' = [success |-> FALSE, at |-> "init"]
               /\ pc' = "finally"
               /\ calls' = Append(calls, Call("init", "failure"))
               /\ UNCHANGED connection
    /\ UNCHANGED <<engineVars, comparisonVars, data, compositeUniqueKeys,
                   duplicateResult, uniqueRecords, config, index, handed, results,
                   exit, written, pendingWrite, readResults>>

\* adapter.fetchRecords and, on its success, compareData; the SQL adapter has
\* no fetchRecords, so the call throws
FetchRecords ==
    /\ pc = "fetchRecords"
    /\ IF config.sql
       THEN /\ pc' = "catch"
            /\ calls' = Append(calls, Call("fetchRecords", "threw"))
            /\ UNCHANGED <<comparisonVars, returnValue>>
       ELSE \/ /\ returnValue' = [success |-> FALSE, at |-> "fetchRecords"]
               /\ pc' = "finally"
               /\ calls' = Append(calls, Call("fetchRecords", "failure"))
               /\ UNCHANGED comparisonVars
            \/ \E docs \in RunStore :
                  LET res == compareData(uniqueRecords, docs,
                                         OrEmptyList(Current, "dataCompareKey"),
                                         OrEmptyList(Current, "exactMatchKeys"))
                  IN /\ dbRecords' = docs
                     /\ compositeKeys' = OrEmptyList(Current, "dataCompareKey")
                     /\ exactMatchKeys' = OrEmptyList(Current, "exactMatchKeys")
                     /\ comparisonResult' = res
                     /\ logged' = compareDataLog(
                                       docs, OrEmptyList(Current, "dataCompareKey"))
                     /\ calls' = calls \o
                            <<Call("fetchRecords", "success"),
                              Call("compareData",
                                   IF res.success THEN "success" ELSE "failure")>>
                     /\ pc' = afterCompareData(res.success)
                     /\ IF res.success
                        THEN UNCHANGED returnValue
                        ELSE returnValue' = [success |-> FALSE, at |-> "compareData"]
    /\ UNCHANGED <<engineVars, data, compositeUniqueKeys, duplicateResult,
                   uniqueRecords, config, index, handed, results, exit, connection,
                   written, pendingWrite, readResults>>

\* the rest of the try block: ensureDir, writeMultiSheetExcel (which swallows
\* its own errors) and the awaited outputFile of the summary
WriteComparisonReport ==
    /\ pc = "writeReport"
    /\ \/ /\ pc' = "catch"
          /\ calls' = Append(calls, Call("ensureDir", "threw"))
          /\ UNCHANGED <<written, returnValue>>
       \/ \E excelWritten \in BOOLEAN :
             LET excel == IF excelWritten
                          THEN {File(Current.collectionName, "Comparison")} ELSE {}
                 excelCall == Call("writeMultiSheetExcel",
                                   IF excelWritten THEN "success" ELSE "failure")
             IN \/ /\ written' = written \cup excel
                      \cup {File(Current.collectionName, "Summary of comparison")}
                   /\ calls' = calls \o <<excelCall, Call("outputFile", "success")>>
                   /\ returnValue' = [success |-> TRUE, at |-> "success"]
                   /\ pc' = "finally"
                \/ /\ written' = written \cup excel
                   /\ calls' = calls \o <<excelCall, Call("outputFile", "threw")>>
                   /\ pc' = "catch"
                   /\ UNCHANGED returnValue
    /\ UNCHANGED <<engineVars, comparisonVars, data, compositeUniqueKeys,
                   duplicateResult, uniqueRecords, config, index, handed, results,
                   exit, connection, pendingWrite, readResults>>

\* catch (err) { await dbAdapter.close(); ...; return { success: false, error } }
CatchClose ==
    /\ pc = "catch"
    /\ connection' = close(connection)
    /\ calls' = Append(calls, CloseCall(connection))
    /\ returnValue' = [success |-> FALSE, at |-> "catch"]
    /\ pc' = "finally"
    /\ UNCHANGED <<engineVars, comparisonVars, data, compositeUniqueKeys,
                   duplicateResult, uniqueRecords, config, index, handed, results,
                   exit, written, pendingWrite, readResults>>

\* finally { await dbAdapter.close() }, then generateComparisonReport and
\* generateReport return
FinallyClose ==
    /\ pc = "finally"
    /\ connection' = finallyClose(connection)
    /\ calls' = Append(calls, CloseCall(connection))
    /\ ReturnToMain(returnValue.success, returnValue.at)
    /\ UNCHANGED <<engineVars, config, index, handed, written, pendingWrite>>

\* main: the loop is over, process.exit(0)
MainExit ==
    /\ pc = "main"
    /\ index = Len(config.collectionConfig)
    /\ pc' = "exit"
    /\ pendingWrite' = {}
    /\ UNCHANGED <<engineVars, comparisonVars, data, compositeUniqueKeys,
                   duplicateResult, uniqueRecords, config, index, handed, results,
                   exit, connection, written, returnValue, calls, readResults>>

NextRun ==
    \/ MainLoop
    \/ ReadExcel
    \/ GenerateDuplicateReport
    \/ SummaryWritten
    \/ SummaryWriteRejected
    \/ AdapterInit
    \/ FetchRecords
    \/ WriteComparisonReport
    \/ CatchClose
    \/ FinallyClose
    \/ MainExit

SpecRun == InitRun /\ [][NextRun]_vars

---------------------------------------------------------------------------
(* Properties of compareData (Spec) *)

KeyOf(rec) == createCompositeKey(rec, compositeKeys)

SourceKeys == {KeyOf(uniqueRecords[i]) : i \in 1..Len(uniqueRecords)}

StoreKeys == {KeyOf(dbRecords[i]) : i \in 1..Len(dbRecords)}

\* the records of a list that fall under key k, in the order of the list
Under(recs, k) ==
    LET has(r) == KeyOf(r) = k
    IN SelectSeq(recs, has)

Report == comparisonResult.reportData

Succeeded == pc = "compared" /\ comparisonResult.success

\* the entries of a result list that stand for key k
AddEntries(k) ==
    {i \in 1..Len(Report.recordsToAddInDB) :
        KeyOf(Report.recordsToAddInDB[i].records[1]) = k}

DeleteEntries(k) ==
    {i \in 1..Len(Report.recordsToDeleteFromDB) :
        KeyOf(Report.recordsToDeleteFromDB[i].records[1]) = k}

UpdateEntries(k) ==
    {i \in 1..Len(Report.changesRequiredInDB) :
        KeyOf(Report.changesRequiredInDB[i].excelRecords[1]) = k}

MatchEntries(k) ==
    {i \in 1..Len(Report.exactMatches) :
        KeyOf(Report.exactMatches[i].excelRecords[1]) = k}

\* C1: after a successful compareData every compare key of the source or the
\* store has exactly one outcome: one ADD entry carrying all source records of
\* the key iff the key is only in the source, one DELETE entry carrying the
\* single store record iff it is only in the store, and one entry in exactly
\* one of the updates and matches lists iff it is on both sides.
C1_FourWayClassification ==
    Succeeded =>
        \A k \in SourceKeys \cup StoreKeys :
            /\ Cardinality(AddEntries(k))
                   = IF k \in SourceKeys \ StoreKeys THEN 1 ELSE 0
            /\ \A i \in AddEntries(k) :
                   /\ Report.recordsToAddInDB[i].records = Under(uniqueRecords, k)
                   /\ Report.recordsToAddInDB[i].action = "ADD"
            /\ Cardinality(DeleteEntries(k))
                   = IF k \in StoreKeys \ SourceKeys THEN 1 ELSE 0
            /\ \A i \in DeleteEntries(k) :
                   /\ Report.recordsToDeleteFromDB[i].records = Under(dbRecords, k)
                   /\ Len(Report.recordsToDeleteFromDB[i].records) = 1
                   /\ Report.recordsToDeleteFromDB[i].action = "DELETE"
            /\ Cardinality(UpdateEntries(k)) + Cardinality(MatchEntries(k))
                   = IF k \in SourceKeys \cap StoreKeys THEN 1 ELSE 0

C1_Witness ==
    /\ Succeeded
    /\ Len(Report.recordsToAddInDB) = 1
    /\ Len(Report.recordsToDeleteFromDB) = 1
    /\ Len(Report.changesRequiredInDB) + Len(Report.exactMatches) = 1

StoreKeyShared ==
    \E i, j \in 1..Len(dbRecords) : i < j /\ KeyOf(dbRecords[i]) = KeyOf(dbRecords[j])

\* C2: when two store records share a compare key, compareData returns
\* success = false and nothing else that could carry a change-set (no
\* reportData), whatever the source records are.
C2_UniquenessViolationFails ==
    (pc = "compared" /\ StoreKeyShared) =>
        /\ comparisonResult.success = FALSE
        /\ "reportData" \notin DOMAIN comparisonResult

C2_Witness ==
    /\ pc = "compared"
    /\ StoreKeyShared
    /\ Len(uniqueRecords) > 0

\* C6: a key of both sides whose source group and store group have different
\* numbers of records is an UPDATE and never a MATCH, whatever the field
\* values and the exact-match field list.
C6_CardinalityMismatchIsUpdate ==
    Succeeded =>
        \A k \in SourceKeys \cap StoreKeys :
            Len(Under(uniqueRecords, k)) # Len(Under(dbRecords, k)) =>
                /\ Cardinality(UpdateEntries(k)) = 1
                /\ MatchEntries(k) = {}

C6_Witness ==
    /\ Succeeded
    /\ \E k \in SourceKeys \cap StoreKeys :
           /\ Len(Under(uniqueRecords, k)) = 2
           /\ Len(Under(dbRecords, k)) = 1
           /\ exactMatchKeys = <<"ScopeType">>
           /\ isEqual(<<Under(uniqueRecords, k)[1]>>, Under(dbRecords, k), exactMatchKeys)

\* C15: when no compare key occurs on both sides, a successful compareData
\* reports as many additions as there are source records, as many deletions
\* as there are store records, no update and no match.
C15_DisjointKeys ==
    (Succeeded /\ SourceKeys \cap StoreKeys = {}) =>
        /\ Report.numberOfRecordsToAddInDB = Len(uniqueRecords)
        /\ Report.numberOfRecordsToDeleteFromDB = Len(dbRecords)
        /\ Report.noOfChangesRequiredInDB = 0
        /\ Report.changesRequiredInDB = <<>>
        /\ Report.noOfExactMatches = 0
        /\ Report.exactMatches = <<>>

C15_Witness ==
    /\ Succeeded
    /\ SourceKeys \cap StoreKeys = {}
    /\ Len(uniqueRecords) = 2
    /\ Cardinality(SourceKeys) = 1
    /\ Len(dbRecords) = 1

\* the positions of a list whose record has a key outside a set of keys
Outside(recs, keys) == {i \in 1..Len(recs) : KeyOf(recs[i]) \notin keys}

\* C17: in a successful compareData the additions count is the number of
\* source records in the addition groups (not the number of groups), the
\* deletions count the number of store records in the deletion groups, and
\* the updates and matches counts are the numbers of keys classified UPDATE
\* and MATCH.
C17_DerivedCounts ==
    Succeeded =>
        /\ Report.numberOfRecordsToAddInDB
               = Cardinality(Outside(uniqueRecords, StoreKeys))
        /\ Report.numberOfRecordsToDeleteFromDB
               = Cardinality(Outside(dbRecords, SourceKeys))
        /\ Report.noOfChangesRequiredInDB
               = Cardinality({k \in SourceKeys \cup StoreKeys : UpdateEntries(k) # {}})
        /\ Report.noOfExactMatches
               = Cardinality({k \in SourceKeys \cup StoreKeys : MatchEntries(k) # {}})

C17_Witness ==
    /\ Succeeded
    /\ Report.noOfChangesRequiredInDB = 1
    /\ Len(Report.changesRequiredInDB[1].excelRecords) = 2
    /\ Report.numberOfRecordsToDeleteFromDB = 1

\* the compare keys under which the store holds more than one record
OffendingKeys == {k \in StoreKeys : Len(Under(dbRecords, k)) > 1}

\* the values put into the messages compareData logged
LoggedValues == UNION {Range(logged[i].interpolated) : i \in 1..Len(logged)}

\* C21: when compareData fails on a store group of more than one record, what
\* it logs (it returns nothing but success = false) names the compare key
\* spec and a composite key whose group has more than one record.
C21_FailureNamesOffendingKey ==
    (pc = "compared" /\ StoreKeyShared) =>
        /\ JoinNames(compositeKeys, <<",", " ">>) \in LoggedValues
        /\ \E k \in OffendingKeys : k \in LoggedValues

\* the groups of source records and of store records a report holds, each
\* named by its list and its position in the list
SourceGroups ==
    ({"add"} \X DOMAIN Report.recordsToAddInDB)
        \cup ({"update"} \X DOMAIN Report.changesRequiredInDB)
        \cup ({"match"} \X DOMAIN Report.exactMatches)

StoreGroups ==
    ({"delete"} \X DOMAIN Report.recordsToDeleteFromDB)
        \cup ({"update"} \X DOMAIN Report.changesRequiredInDB)
        \cup ({"match"} \X DOMAIN Report.exactMatches)

SourceGroup(g) ==
    CASE g[1] = "add" -> Report.recordsToAddInDB[g[2]].records
      [] g[1] = "update" -> Report.changesRequiredInDB[g[2]].excelRecords
      [] g[1] = "match" -> Report.exactMatches[g[2]].excelRecords

StoreGroup(g) ==
    CASE g[1] = "delete" -> Report.recordsToDeleteFromDB[g[2]].records
      [] g[1] = "update" -> Report.changesRequiredInDB[g[2]].dbRecords
      [] g[1] = "match" -> Report.exactMatches[g[2]].dbRecords

\* the number of source records in the groups of a list of both-sides entries
ExcelRecordsIn(entries) ==
    LET sum[i \in 0..Len(entries)] ==
            IF i = 0 THEN 0 ELSE sum[i - 1] + Len(entries[i].excelRecords)
    IN sum[Len(entries)]

\* C27: a successful compareData conserves the records: the source records
\* of every key form exactly one group of exactly one of the additions,
\* updates and matches, the store records of every key exactly one group of
\* the deletions, updates and matches, and no group holds anything else; the
\* additions count plus the source records of the update and match groups is
\* the number of source records, the deletions, updates and matches counts sum
\* to the number of store records, and the count of keys of both sides is the
\* updates count plus the matches count.
C27_RecordConservation ==
    Succeeded =>
        /\ \A k \in SourceKeys :
               \E g \in SourceGroups :
                   /\ SourceGroup(g) = Under(uniqueRecords, k)
                   /\ \A h \in SourceGroups \ {g} :
                          \A i \in DOMAIN SourceGroup(h) : KeyOf(SourceGroup(h)[i]) # k
        /\ Cardinality(SourceGroups) = Cardinality(SourceKeys)
        /\ \A k \in StoreKeys :
               \E g \in StoreGroups :
                   /\ StoreGroup(g) = Under(dbRecords, k)
                   /\ \A h \in StoreGroups \ {g} :
                          \A i \in DOMAIN StoreGroup(h) : KeyOf(StoreGroup(h)[i]) # k
        /\ Cardinality(StoreGroups) = Cardinality(StoreKeys)
        /\ Report.numberOfRecordsToAddInDB
               + ExcelRecordsIn(Report.changesRequiredInDB)
               + ExcelRecordsIn(Report.exactMatches) = Len(uniqueRecords)
        /\ Report.numberOfRecordsToDeleteFromDB + Report.noOfChangesRequiredInDB
               + Report.noOfExactMatches = Len(dbRecords)
        /\ Report.noOfexactMatchesWithKeys
               = Report.noOfChangesRequiredInDB + Report.noOfExactMatches

C27_Witness ==
    /\ Succeeded
    /\ Len(uniqueRecords) = 2
    /\ Cardinality(SourceKeys) = 1
    /\ Len(dbRecords) = 2
    /\ Report.noOfexactMatchesWithKeys = 1
    /\ ExcelRecordsIn(Report.changesRequiredInDB) = 2
    /\ Len(Report.recordsToDeleteFromDB) = 1

---------------------------------------------------------------------------
(* Properties of getDuplicateStats (SpecDedup) *)

DedupKeyOf(rec) == createCompositeKey(rec, compositeUniqueKeys)

\* the records of data[i..] that no earlier record shares the dedup key with
RECURSIVE FirstSeen(_)
FirstSeen(i) ==
    IF i > Len(data) THEN <<>>
    ELSE (IF \E j \in 1..(i - 1) : DedupKeyOf(data[j]) = DedupKeyOf(data[i])
          THEN <<>> ELSE <<data[i]>>) \o FirstSeen(i + 1)

\* C3: uniqueRecords is the subsequence of the input made of the first record
\* of every dedup key, in input order, each record as it was in the input.
C3_FirstSeenWins ==
    pc = "deduped" => duplicateResult.uniqueRecords = FirstSeen(1)

C3_Witness ==
    /\ pc = "deduped"
    /\ Len(duplicateResult.uniqueRecords) = 2
    /\ \E i, j \in 1..Len(data) :
           /\ i < j
           /\ DedupKeyOf(data[i]) = DedupKeyOf(data[j])
           /\ data[i] # data[j]

DistinctDedupKeys == {DedupKeyOf(data[i]) : i \in 1..Len(data)}

\* C4: for N records with U distinct dedup keys, uniqueRecords has length U
\* (and uniqueCount is U), the duplicateCount values of the duplicate entries
\* sum to N - U, and the reported duplicateCount is that sum.
C4_DedupConservation ==
    pc = "deduped" =>
        /\ Len(duplicateResult.uniqueRecords) = Cardinality(DistinctDedupKeys)
        /\ duplicateResult.uniqueCount = Cardinality(DistinctDedupKeys)
        /\ SumDuplicateCount(duplicateResult.duplicateRecords)
               = Len(data) - Cardinality(DistinctDedupKeys)
        /\ duplicateResult.duplicateCount
               = Len(data) - Cardinality(DistinctDedupKeys)

C4_Witness ==
    /\ pc = "deduped"
    /\ \E i \in 1..Len(duplicateResult.duplicateRecords) :
           duplicateResult.duplicateRecords[i].duplicateCount >= 2

\* the positions of the input whose record has dedup key k
Occurrences(k) == {i \in 1..Len(data) : DedupKeyOf(data[i]) = k}

\* the positions of the duplicates list whose entry is for dedup key k
DuplicateEntries(k) ==
    {i \in 1..Len(duplicateResult.duplicateRecords) :
        duplicateResult.duplicateRecords[i].compositeKey = k}

\* C18: a dedup key has a duplicate entry iff it occurs at least twice in the
\* input, and the duplicateCount of that entry is the number of occurrences
\* of the key minus one, wherever the repeats stand in the input.
C18_PerKeyDuplicateCount ==
    pc = "deduped" =>
        /\ \A k \in DistinctDedupKeys :
               /\ DuplicateEntries(k) # {} <=> Cardinality(Occurrences(k)) >= 2
               /\ \A i \in DuplicateEntries(k) :
                      duplicateResult.duplicateRecords[i].duplicateCount
                          = Cardinality(Occurrences(k)) - 1
        /\ \A i \in 1..Len(duplicateResult.duplicateRecords) :
               duplicateResult.duplicateRecords[i].compositeKey \in DistinctDedupKeys

C18_Witness ==
    /\ pc = "deduped"
    /\ Len(data) = 3
    /\ \E k \in DistinctDedupKeys :
           /\ Cardinality(Occurrences(k)) = 3
           /\ \E i \in DuplicateEntries(k) :
                  duplicateResult.duplicateRecords[i].duplicateCount = 2
    /\ data[1] # data[2]

\* C19: no two entries of the duplicates list have the same compositeKey.
C19_DuplicateEntriesDistinct ==
    pc = "deduped" =>
        \A i, j \in 1..Len(duplicateResult.duplicateRecords) :
            duplicateResult.duplicateRecords[i].compositeKey
                = duplicateResult.duplicateRecords[j].compositeKey => i = j

C19_Witness ==
    /\ pc = "deduped"
    /\ Len(duplicateResult.duplicateRecords) = 1
    /\ Occurrences(duplicateResult.duplicateRecords[1].compositeKey) = {1, 3}
    /\ Len(data) = 3

---------------------------------------------------------------------------
(* Properties of createCompositeKey (SpecKey) *)

SameUpToCaseAndBlanks(v, w) ==
    /\ v.t = "string"
    /\ w.t = "string"
    /\ Trim(ToLowerCase(v.s)) = Trim(ToLowerCase(w.s))

\* C5: the key does not change when the string value of a field named in the
\* key spec, at any position of the spec, is replaced by a string that differs
\* from it only in letter case or in leading or trailing blanks.
C5_KeyIgnoresCaseAndBlanks ==
    pc = "keyed" =>
        \A f \in Range(keySpec) \cap DOMAIN record :
            \A w \in KeyFieldValues :
                SameUpToCaseAndBlanks(record[f], w) =>
                    createCompositeKey([record EXCEPT ![f] = w], keySpec) = key

\* the three values that stand for "no value" in a key
EmptyKeyValues == {Null, Undefined, Str(<<>>)}

\* rec with the value of field f replaced by v; undefined is an absent field
ReplaceField(rec, f, v) ==
    IF v = Undefined THEN [g \in DOMAIN rec \ {f} |-> rec[g]]
    ELSE [g \in DOMAIN rec \cup {f} |-> IF g = f THEN v ELSE rec[g]]

\* C20: null, undefined (or absent) and the empty string are the same for
\* the key: replacing the value of a field named in the key spec that is one
\* of the three by another of the three leaves the key unchanged.
C20_EmptyValuesAlike ==
    pc = "keyed" =>
        \A f \in Range(keySpec) :
            Get(record, f) \in EmptyKeyValues =>
                \A w \in EmptyKeyValues :
                    createCompositeKey(ReplaceField(record, f, w), keySpec) = key

C20_Witness ==
    /\ pc = "keyed"
    /\ keySpec = <<"ManufacturerName", "ScopeModel", "ScopeType">>
    /\ Get(record, "ManufacturerName") = Str(<<"a">>)
    /\ Get(record, "ScopeModel") = Null
    /\ Get(record, "ScopeType") = Str(<<"b">>)
    /\ key = <<"a", "|", "|", "b">>

\* the values of the key fields of a record as the key takes them: no value
\* as the empty string, any other value as its text, lower-cased and trimmed
NormalizedKeyValues(rec, keys) ==
    [i \in 1..Len(keys) |->
        IF Get(rec, keys[i]) \in EmptyKeyValues THEN <<>>
        ELSE Trim(ToLowerCase(ToStr(Get(rec, keys[i]))))]

\* some key field of the record has a value containing the delimiter
HasDelimiter(rec, keys) ==
    \E i \in 1..Len(keys) :
        /\ Get(rec, keys[i]) \notin EmptyKeyValues
        /\ "|" \in Range(ToStr(Get(rec, keys[i])))

\* the records that can be keyed under the key spec of the state
OtherRecords == RecordsOver(Range(keySpec), KeyFieldValues)

\* C29: under a non-empty key spec two records whose tuples of normalized
\* key-field values differ get different keys, provided no key-field value of
\* either contains '|'.  (With '|' in a value two records of different tuples
\* can get the same key: the witness is such a pair.)
C29_KeyInjective ==
    pc = "keyed" =>
        \A other \in OtherRecords :
            (/\ ~HasDelimiter(record, keySpec)
             /\ ~HasDelimiter(other, keySpec)
             /\ NormalizedKeyValues(other, keySpec)
                    # NormalizedKeyValues(record, keySpec)) =>
                createCompositeKey(other, keySpec) # key

C29_Witness ==
    /\ pc = "keyed"
    /\ Len(keySpec) = 2
    /\ HasDelimiter(record, keySpec)
    /\ \E other \in OtherRecords :
           /\ NormalizedKeyValues(other, keySpec) # NormalizedKeyValues(record, keySpec)
           /\ createCompositeKey(other, keySpec) = key

---------------------------------------------------------------------------
(* Properties of the field comparison (SpecPair, SpecDiff, Spec) *)

\* two strings compared without regard to case, any other pair by ===
SubsetEqual(v, w) ==
    IF v.t = "string" /\ w.t = "string"
    THEN ToLowerCase(v.s) = ToLowerCase(w.s)
    ELSE v = w

OneToOne(k) == Len(Under(uniqueRecords, k)) = 1 /\ Len(Under(dbRecords, k)) = 1

AllListedEqual(k) ==
    \A f \in Range(exactMatchKeys) :
        SubsetEqual(Get(Under(uniqueRecords, k)[1], f), Get(Under(dbRecords, k)[1], f))

\* C7: with a non-empty exact-match field list, a key with one source and one
\* store record is a MATCH iff every listed field is equal (strings without
\* regard to case, anything else strictly) and an UPDATE otherwise; the fields
\* that are not listed have no say.
C7_SubsetMode ==
    (Succeeded /\ exactMatchKeys # <<>>) =>
        \A k \in SourceKeys \cap StoreKeys :
            OneToOne(k) =>
                /\ Cardinality(MatchEntries(k)) = (IF AllListedEqual(k) THEN 1 ELSE 0)
                /\ Cardinality(UpdateEntries(k)) = (IF AllListedEqual(k) THEN 0 ELSE 1)

C7_Witness ==
    /\ Succeeded
    /\ exactMatchKeys = <<"ScopeType">>
    /\ Get(uniqueRecords[1], "ScopeType") = Str(<<"T">>)
    /\ Get(dbRecords[1], "ScopeType") = Str(<<"t">>)
    /\ Get(uniqueRecords[1], "ManufacturerName") = Str(<<"x">>)
    /\ Get(dbRecords[1], "ManufacturerName") = Str(<<"y">>)
    /\ Len(Report.exactMatches) = 1

SomeFieldDiffers(k) ==
    \E f \in DOMAIN Under(uniqueRecords, k)[1] \cup DOMAIN Under(dbRecords, k)[1] :
        normalizeValue(Get(Under(uniqueRecords, k)[1], f))
            # normalizeValue(Get(Under(dbRecords, k)[1], f))

\* C8: with no exact-match field list, a key with one source and one store
\* record is an UPDATE iff some field of the union of the two records differs
\* after normalization, and a MATCH iff none does.
C8_FullMode ==
    (Succeeded /\ exactMatchKeys = <<>>) =>
        \A k \in SourceKeys \cap StoreKeys :
            OneToOne(k) =>
                /\ Cardinality(UpdateEntries(k)) = (IF SomeFieldDiffers(k) THEN 1 ELSE 0)
                /\ Cardinality(MatchEntries(k)) = (IF SomeFieldDiffers(k) THEN 0 ELSE 1)

\* C16: when both sides have the same compare keys and, under each key, one
\* record each whose fields are all equal after normalization, compareData
\* reports as many matches as there are keys and no update.
C16_NormalizedEqualIsMatch ==
    (/\ Succeeded
     /\ SourceKeys = StoreKeys
     /\ \A k \in SourceKeys : OneToOne(k) /\ ~SomeFieldDiffers(k)) =>
        /\ Report.noOfExactMatches = Cardinality(SourceKeys)
        /\ Report.noOfChangesRequiredInDB = 0

\* empty in the sense of the claim: null, undefined or the empty string
IsEmptyValue(v) == v \in {Null, Undefined, Str(<<>>)}

ExpectedChangeType(excelValue, dbValue) ==
    IF IsEmptyValue(excelValue) /\ IsEmptyValue(dbValue) THEN "NO_CHANGE"
    ELSE IF IsEmptyValue(dbValue) THEN "FIELD_ADDED"
    ELSE IF IsEmptyValue(excelValue) THEN "FIELD_REMOVED"
    ELSE IF normalizeValue(excelValue) # normalizeValue(dbValue) THEN "FIELD_MODIFIED"
    ELSE "NO_CHANGE"

\* the classification findRecordDifferences gives a field: the changeType of
\* its entry, NO_CHANGE when the field has no entry
ReportedChangeType(f) ==
    IF \E d \in differences : d.field = f
    THEN (CHOOSE d \in differences : d.field = f).changeType
    ELSE "NO_CHANGE"

\* C9: every field of the union of the two records is classified NO_CHANGE
\* when both values are empty or both are present and equal after
\* normalization, FIELD_ADDED when only the source value is present,
\* FIELD_REMOVED when only the store value is present, FIELD_MODIFIED when both
\* are present and differ after normalization; an entry carries the field name
\* and the two original values.
C9_FieldClassification ==
    pc = "diffed" =>
        /\ \A f \in DOMAIN uniqueRecords[1] \cup DOMAIN dbRecords[1] :
               ReportedChangeType(f)
                   = ExpectedChangeType(Get(uniqueRecords[1], f), Get(dbRecords[1], f))
        /\ \A d \in differences :
               /\ d.excelValue = Get(uniqueRecords[1], d.field)
               /\ d.dbValue = Get(dbRecords[1], d.field)

\* C28: every entry of the differences list has a changeType other than
\* NO_CHANGE: for every field whose two values differ after normalizeValue,
\* getChangeType on the original values gives FIELD_ADDED, FIELD_REMOVED or
\* FIELD_MODIFIED, whatever scalar values the two records hold (whitespace-only
\* strings, 0 and false included).
C28_NoEntryWithoutChange ==
    pc = "diffed" =>
        /\ \A d \in differences :
               d.changeType \in {"FIELD_ADDED", "FIELD_REMOVED", "FIELD_MODIFIED"}
        /\ \A f \in DOMAIN uniqueRecords[1] \cup DOMAIN dbRecords[1] :
               normalizeValue(Get(uniqueRecords[1], f))
                       # normalizeValue(Get(dbRecords[1], f)) =>
                   /\ getChangeType(Get(uniqueRecords[1], f), Get(dbRecords[1], f))
                          # "NO_CHANGE"
                   /\ \E d \in differences : d.field = f

C28_Witness ==
    /\ pc = "diffed"
    /\ \E d \in differences :
           /\ d.field = "ScopeType"
           /\ d.excelValue = Num(0)
           /\ d.dbValue \in {Str(<<" ">>), Bool(FALSE)}
           /\ d.changeType = "FIELD_MODIFIED"

StoreIdValues == {Undefined, Str(<<"1">>), Str(<<"2">>)}

\* the outcome of every key in a result of compareData
Classification(res) ==
    IF res.success
    THEN [success |-> TRUE,
          add |-> {KeyOf(e.records[1]) : e \in Range(res.reportData.recordsToAddInDB)},
          delete |-> {KeyOf(e.records[1]) :
                         e \in Range(res.reportData.recordsToDeleteFromDB)},
          update |-> {KeyOf(e.excelRecords[1]) :
                         e \in Range(res.reportData.changesRequiredInDB)},
          match |-> {KeyOf(e.excelRecords[1]) :
                        e \in Range(res.reportData.exactMatches)}]
    ELSE [success |-> FALSE, add |-> {}, delete |-> {}, update |-> {}, match |-> {}]

\* C10: the identity field _id of the store records has no influence: the
\* same reconciliation with any other _id values on the store records gives
\* every key the same outcome, also when _id is named in the exact-match field
\* list or the compare key spec is empty.
C10_IdentityFieldIgnored ==
    pc = "compared" =>
        \A ids \in [1..Len(dbRecords) -> StoreIdValues] :
            Classification(compareData(uniqueRecords, WithIds(dbRecords, ids),
                                       compositeKeys, exactMatchKeys))
                = Classification(comparisonResult)

---------------------------------------------------------------------------
(* Properties of a run of main (SpecRun) *)

\* the names of the configured collections, in configuration order
ConfiguredNames ==
    [i \in 1..Len(config.collectionConfig) |->
        config.collectionConfig[i].collectionName]

\* generateReport has returned to main for the latest collection handed to it
Returned == pc = "main" /\ Len(results) > 0

\* C11: a collection whose dedup key spec or compare key spec is empty or
\* absent is never reconciled under the degenerate key: compareData does not
\* succeed for it with an empty compare key spec, and main gets no success
\* for it.
C11_NoDegenerateKey ==
    /\ pc = "writeReport" => compositeKeys # <<>>
    /\ \A i \in 1..Len(results) :
           results[i] =>
               /\ ~noCompositeKeys(config.collectionConfig[i], "compositeUniqueKeys")
               /\ ~noCompositeKeys(config.collectionConfig[i], "dataCompareKey")

\* C12: the collections are handed to generateReport in configuration order,
\* and when the run of main has ended every configured collection has been
\* handed to it, however the earlier collections ended.
C12_EveryCollectionHanded ==
    /\ handed = SubSeq(ConfiguredNames, 1, Len(handed))
    /\ ~Alive => handed = ConfiguredNames

C14_FailureLeavesNoArtifact ==
    (Returned /\ ~results[Len(results)]) =>
        \A f \in written : f.collectionName # handed[Len(handed)]


\* the positions of the calls of the given names in the history of calls
CallsOf(names) == {i \in 1..Len(calls) : calls[i].call \in names}

\* the steps of generateComparisonReport that report the comparison
ReportCalls == {"ensureDir", "writeMultiSheetExcel", "outputFile"}

\* a step that did not succeed: it returned success = false or it threw
Failed(i) ==
    /\ calls[i].call \in {"init", "fetchRecords", "compareData"}
    /\ calls[i].outcome \in {"failure", "threw"}

C24_EveryAdapterFetches ==
    pc \in {"main", "init", "fetchRecords", "writeReport", "catch", "finally"} =>
        \A i \in CallsOf({"fetchRecords"}) :
            calls[i].outcome \in {"success", "failure"}

\* the number of connections the calls of the history opened and closed
Connects == Cardinality({i \in CallsOf({"init"}) : calls[i].outcome = "connected"})
Closes == Cardinality({i \in CallsOf({"close"}) : calls[i].outcome = "closed"})

RowsRead ==
    LET rows[i \in 0..Len(readResults)] ==
            IF i = 0 THEN <<>>
            ELSE rows[i - 1] \o (IF readResults[i].success
                                 THEN readResults[i].data ELSE <<>>)
    IN rows[Len(readResults)]

\* C23: the source records handed to compareData are the uniqueRecords of
\* the deduplication of the rows of all files read with success, concatenated
\* in mapping order; no two of them share a dedup key; and the comparison
\* never starts when the duplicate report failed.
C23_ComparesDeduplicatedRows ==
    /\ pc \in {"init", "fetchRecords", "writeReport", "catch", "finally"} =>
           /\ data = RowsRead
           /\ uniqueRecords = FirstSeen(1)
           /\ \A i, j \in 1..Len(uniqueRecords) :
                  DedupKeyOf(uniqueRecords[i]) = DedupKeyOf(uniqueRecords[j]) => i = j
           /\ pc = "writeReport" =>
                  comparisonResult = compareData(uniqueRecords, dbRecords,
                                                 compositeKeys, exactMatchKeys)
    /\ (Returned /\ exit \in {"generateDuplicateReport", "catch of generateReport"}) =>
           calls = <<>>

C23_Witness ==
    /\ pc = "writeReport"
    /\ Len(readResults) = 2
    /\ readResults[1].success
    /\ readResults[2].success
    /\ readResults[1].data # readResults[2].data
    /\ Len(data) = 2
    /\ uniqueRecords = data
    /\ comparisonResult.success
    /\ comparisonResult.reportData.numberOfRecordsToAddInDB
           + Len(comparisonResult.reportData.exactMatchesWithKeys) > 0


---------------------------------------------------------------------------
(* Properties of readExcel (SpecExcel) *)

\* the row holds, in a column named in an excludeRecord entry, one of the
\* values of the entry
Excluded(row) ==
    \E i \in 1..Len(columnConfig) :
        /\ "headerName" \in DOMAIN columnConfig[i]
        /\ \E j \in 1..Len(excludeRecord) :
               /\ excludeRecord[j].columnName = columnConfig[i].columnName
               /\ row[columnConfig[i].headerName] \in excludeRecord[j].values

\* C25: a row whose cell in a column named in an excludeRecord entry holds
\* one of the values of the entry is skipped entirely: it adds no record to
\* the extracted data, not even one built from the columns configured after
\* the excluded column, wherever that column stands in columnConfig; the
\* extracted data holds one record for every other row and nothing else.
C25_ExcludedRowSkipped ==
    pc = "extracted" =>
        /\ \A i \in 1..Len(sheet) :
               Excluded(sheet[i]) =>
                   rowRecords(sheet[i], columnConfig, excludeRecord) = <<>>
        /\ Len(extractedData)
               = Cardinality({i \in 1..Len(sheet) : ~Excluded(sheet[i])})

=============================================================================
